---- MODULE Spec2Model ----
(***************************************************************************)
(* Model of phroi/ckb-utils: the TransactionBuilder (accumulating cells,   *)
(* the two-pass build, the dependency / since / witness resolvers) and the *)
(* submission poll loop, together with the pure helpers of lib/utils.      *)
(*                                                                         *)
(* Representation notes.                                                   *)
(*  - Hexadecimal strings that hold numbers (capacities, block numbers,    *)
(*    fees) are modelled by the number they denote.                        *)
(*  - A cell's data is the sequence of its bytes, so that decoding it with *)
(*    Uint64LE is a computation and not the identity.                      *)
(*  - Capacities are in shannons, but one byte of occupied capacity costs  *)
(*    ShannonsPerByte shannons instead of 10^8, so that sums stay inside   *)
(*    TLC's integers.                                                      *)
(*  - Sequences are 1-based here; indexes the code stores (inputSinces     *)
(*    keys, header-dependency positions) are kept 0-based as in the code.  *)
(***************************************************************************)
EXTENDS Integers, Sequences, FiniteSets, TLC

\* ------------------------------------------------------------------ bounds
MaxInputs == 2
MaxOutputs == 2
MaxBatch == 2
ChainTip == 2
MaxCalls == 2
MaxTimeout == 3
ShannonsPerByte == 1000
MaxEpochFraction == 3
MaxFeeSize == 6
MaxFeeRate == 3

\* ------------------------------------------------------- program constants
DefaultFeeRate == 1000
FeeRatio == 1000
TxSizeOffset == 4
SignaturePlaceholderLen == 65

\* ----------------------------------------------------------------- helpers
Range(s) == {s[i] : i \in 1..Len(s)}

NoDuplicates(s) == \A i, j \in 1..Len(s) : s[i] = s[j] => i = j

RECURSIVE SumSeq(_)
SumSeq(s) == IF s = <<>> THEN 0 ELSE Head(s) + SumSeq(Tail(s))

\* Index (0-based) of the first element of s equal to v, or -1: Array/List findIndex.
RECURSIVE findIndexFrom(_, _, _)
findIndexFrom(s, v, k) ==
    IF k > Len(s) THEN -1
    ELSE IF s[k] = v THEN k - 1
    ELSE findIndexFrom(s, v, k + 1)

findIndex(s, v) == findIndexFrom(s, v, 1)

\* Appends to s the elements of t not already present: insertion into a JS
\* Set / Map keyed by the element, which keeps first-insertion order.
RECURSIVE InsertAll(_, _)
InsertAll(s, t) ==
    IF t = <<>> THEN s
    ELSE InsertAll(IF Head(t) \in Range(s) THEN s ELSE Append(s, Head(t)), Tail(t))

\* ------------------------------------------------------------ Uint64LE codec
Zero8 == [i \in 1..8 |-> 0]

\* Uint64LE.unpack: the number a little-endian byte sequence denotes.
RECURSIVE Uint64LEunpack(_)
Uint64LEunpack(b) ==
    IF b = <<>> THEN 0 ELSE Head(b) + 256 * Uint64LEunpack(Tail(b))

\* Uint64LE.pack: the 8 little-endian bytes of n.
RECURSIVE bytesLE(_, _)
bytesLE(n, k) == IF k = 0 THEN <<>> ELSE <<n % 256>> \o bytesLE(n \div 256, k - 1)

Uint64LEpack(n) == bytesLE(n, 8)

\* ------------------------------------------------------------------ scripts
NoScript == [absent |-> TRUE]

Script(codeHash, hashType, args) ==
    [codeHash |-> codeHash, hashType |-> hashType, args |-> args]

\* scriptEq: field-wise equality; false when exactly one side is absent.
\* (Both absent throws in the code; no call in the builder passes two absent.)
scriptEq(s0, s1) ==
    IF s0 = NoScript \/ s1 = NoScript THEN FALSE
    ELSE /\ s0.codeHash = s1.codeHash
         /\ s0.hashType = s1.hashType
         /\ s0.args = s1.args

\* isScript: same kind of script, whatever the args.
isScript(s0, s1) ==
    /\ s0 # NoScript
    /\ s1 # NoScript
    /\ s0.codeHash = s1.codeHash
    /\ s0.hashType = s1.hashType

\* ----------------------------------------------------------------- registry
\* The script/configuration registry: the known script names in enumeration
\* order, each name the sequence of its underscore-joined prefixes.
ConfigNames ==
    << <<"SECP256K1">>, <<"DAO">>, <<"PWLOCK">>, <<"SUDT", "SECP256K1">> >>

ConfigScripts == Range(ConfigNames)

defaultScript(name) ==
    CASE name = <<"SECP256K1">> -> Script("secp256k1_code", "type", "")
      [] name = <<"DAO">> -> Script("dao_code", "type", "")
      [] name = <<"PWLOCK">> -> Script("pwlock_code", "type", "")
      [] name = <<"SUDT", "SECP256K1">> -> Script("sudt_code", "type", "")

defaultCellDeps(name) ==
    CASE name = <<"SECP256K1">> ->
            [outPoint |-> [txHash |-> "tx_secp", index |-> 0], depType |-> "depGroup"]
      [] name = <<"DAO">> ->
            [outPoint |-> [txHash |-> "tx_genesis", index |-> 2], depType |-> "code"]
      [] name = <<"PWLOCK">> ->
            [outPoint |-> [txHash |-> "tx_pw", index |-> 0], depType |-> "code"]
      [] name = <<"SUDT", "SECP256K1">> ->
            [outPoint |-> [txHash |-> "tx_sudt", index |-> 0], depType |-> "code"]

\* -------------------------------------------------------------------- cells
NoBlockNumber == 0 - 1

Cell(outPoint, capacity, lock, type, data, blockNumber) ==
    [cellOutput |-> [capacity |-> capacity, lock |-> lock, type |-> type],
     outPoint |-> outPoint,
     data |-> data,
     blockNumber |-> blockNumber]

DAO_DEPOSIT_DATA == Zero8

isDAODeposit(c) ==
    scriptEq(c.cellOutput.type, defaultScript(<<"DAO">>)) /\ c.data = DAO_DEPOSIT_DATA

isDAOWithdrawal(c) ==
    scriptEq(c.cellOutput.type, defaultScript(<<"DAO">>)) /\ c.data # DAO_DEPOSIT_DATA

\* Byte length of a script's args: a 20-byte hash, or none.
ArgsLen(args) == IF args = "" THEN 0 ELSE 20

\* Occupied bytes of a script: code hash (32), hash type (1), args.
ScriptBytes(s) == IF s = NoScript THEN 0 ELSE 32 + 1 + ArgsLen(s.args)

\* minimalCellCapacityCompatible: capacity field (8 bytes), lock, type and
\* data, at ShannonsPerByte per byte.
minimalCellCapacityCompatible(c) ==
    (8 + ScriptBytes(c.cellOutput.lock) + ScriptBytes(c.cellOutput.type) + Len(c.data))
        * ShannonsPerByte

\* ------------------------------------------------------------------ epochs
\* A packed 64-bit epoch is held as three limbs: hi = bits 40..63,
\* mid = bits 24..39, lo = bits 0..23.
PackedEpoch(hi, mid, lo) == [hi |-> hi, mid |-> mid, lo |-> lo]

parseEpoch(epoch) ==
    [length |-> epoch.hi % 4096,
     index |-> epoch.mid % 4096,
     number |-> epoch.lo % 16777216]

\* epochCompare: by number, then by the fractions index/length, compared
\* through their cross products.
epochCompare(e0, e1) ==
    IF e0.number < e1.number THEN -1
    ELSE IF e0.number > e1.number THEN 1
    ELSE IF e0.index * e1.length < e1.index * e0.length THEN -1
    ELSE IF e0.index * e1.length > e1.index * e0.length THEN 1
    ELSE 0

\* stringifyEpoch: length * 2^40 + index * 2^24 + number, as limbs: what does
\* not fit a limb is carried into the next.
stringifyEpoch(e) ==
    PackedEpoch(e.length + (e.index + e.number \div 16777216) \div 65536,
                (e.index + e.number \div 16777216) % 65536,
                e.number % 16777216)

\* The chain the adapter serves: blocks 0..ChainTip exist, later ones do not.
NoHeader == [absent |-> TRUE]

BlockNumbers == 0..(ChainTip + 1)

ChainHeader(n) ==
    IF n \in 0..ChainTip
    THEN [number |-> n,
          hash |-> <<"blockhash", n>>,
          epoch |-> PackedEpoch(10, n, 100 * n),
          dao |-> [ar |-> 100 + 10 * n]]
    ELSE NoHeader

\* calculateMaximumWithdrawCompatible: the counted capacity grows by the ratio
\* of the two accumulated rates; the occupied capacity earns nothing.
calculateMaximumWithdrawCompatible(c, depositDao, withdrawDao) ==
    LET occupied == minimalCellCapacityCompatible(c)
        counted == c.cellOutput.capacity - occupied
    IN  (counted * withdrawDao.ar) \div depositDao.ar + occupied

\* calculateDaoEarliestSinceCompatible: the absolute epoch since at which a
\* whole number of 180-epoch lock periods has passed since the deposit.
calculateDaoEarliestSinceCompatible(depositEpochPacked, withdrawEpochPacked) ==
    LET depositEpoch == parseEpoch(depositEpochPacked)
        withdrawEpoch == parseEpoch(withdrawEpochPacked)
        withdrawFraction == withdrawEpoch.index * depositEpoch.length
        depositFraction == depositEpoch.index * withdrawEpoch.length
        elapsed == withdrawEpoch.number - depositEpoch.number
        depositedEpochs == IF withdrawFraction > depositFraction THEN elapsed + 1 ELSE elapsed
        lockEpochs == ((depositedEpochs + 180 - 1) \div 180) * 180
    IN  [flag |-> "absoluteEpoch",
         length |-> depositEpoch.length,
         index |-> depositEpoch.index,
         number |-> depositEpoch.number + lockEpochs]

\* ------------------------------------------------------------ cell universe
SecpLockA == Script("secp256k1_code", "type", "args_a")
SecpLockB == Script("secp256k1_code", "type", "args_b")
PwLockA == Script("pwlock_code", "type", "args_a")
UnknownLock == Script("unknown_code", "data", "args_a")
DaoType == defaultScript(<<"DAO">>)
SudtType == Script("sudt_code", "type", "args_b")
UnknownType == Script("sudt_code", "data", "args_b")

AccountLocks == {SecpLockA, PwLockA}

FeeRates == {0, DefaultFeeRate}

\* Cells a caller may add as inputs.
InputCells ==
    { Cell("in_plain_a", 200 * ShannonsPerByte, SecpLockA, NoScript, <<>>, 1),
      Cell("in_plain_a2", 150 * ShannonsPerByte, SecpLockA, NoScript, <<>>, 2),
      Cell("in_pw_a", 100 * ShannonsPerByte, PwLockA, NoScript, <<>>, 2),
      Cell("in_deposit", 300 * ShannonsPerByte, SecpLockA, DaoType, DAO_DEPOSIT_DATA, 1),
      Cell("in_withdrawal", 300 * ShannonsPerByte, PwLockA, DaoType, Uint64LEpack(1), 2),
      Cell("in_unknown", 100 * ShannonsPerByte, UnknownLock, NoScript, <<>>, 1),
      Cell("in_no_block", 100 * ShannonsPerByte, SecpLockA, NoScript, <<>>, NoBlockNumber) }

\* Cells a caller may add as outputs (not yet on chain: no block number).
\* out_b leaves in_plain_a a change just above the minimal capacity.
OutputCells ==
    { Cell("out_a", 100 * ShannonsPerByte, SecpLockA, NoScript, <<>>, NoBlockNumber),
      Cell("out_b", 139 * ShannonsPerByte - 50, SecpLockB, SudtType, Uint64LEpack(7),
           NoBlockNumber) }

\* Non-empty sequences over S of length at most n.
SeqsUpTo(S, n) == UNION {[1..k -> S] : k \in 1..n}

\* ------------------------------------------------------------ result values
\* What an asynchronous step yields: the header context it leaves behind (the
\* builder's cache and the adapter calls made so far), the error it threw
\* ("none" when it returned) and the value it returned.
Ret(ctx, err, val) == [ctx |-> ctx, err |-> err, val |-> val]

\* A step that does not touch the header context.
Lift(ctx, r) == Ret(ctx, r.err, r.val)

\* Sequencing of awaited steps: a throw ends the sequence (with `none` in place
\* of the value), a return hands the result to the rest.
Bind(r, none, rest(_)) == IF r.err # "none" THEN Ret(r.ctx, r.err, none) ELSE rest(r)

Max(S) == CHOOSE x \in S : \A y \in S : y <= x

Min(a, b) == IF a < b THEN a ELSE b

\* ------------------------------------------------------------ header cache
\* Mutant: the cache is not consulted, every lookup asks the adapter.
getHeaderByNumberUncached(ctx, blockNumber) ==
    IF blockNumber \notin BlockNumbers
    THEN Ret(ctx, "HeaderNotFound", NoHeader)
    ELSE LET header == ChainHeader(blockNumber)
             after == [cache |-> [ctx.cache EXCEPT ![blockNumber] = header],
                       calls |-> [ctx.calls EXCEPT ![blockNumber] = @ + 1]]
         IN  Ret(after, IF header = NoHeader THEN "HeaderNotFound" ELSE "none", header)

\* getHeaderByNumber: the cached header, or the adapter's answer, which is
\* stored before it is tested.
getHeaderByNumber(ctx, blockNumber) ==
    IF blockNumber \notin BlockNumbers
    THEN Ret(ctx, "HeaderNotFound", NoHeader)
    ELSE IF ctx.cache[blockNumber] # NoHeader
    THEN Ret(ctx, "none", ctx.cache[blockNumber])
    ELSE LET header == ChainHeader(blockNumber)
             after == [cache |-> [ctx.cache EXCEPT ![blockNumber] = header],
                       calls |-> [ctx.calls EXCEPT ![blockNumber] = @ + 1]]
         IN  Ret(after, IF header = NoHeader THEN "HeaderNotFound" ELSE "none", header)

\* The getBlockHash closure of buildWithChange.
getBlockHash(ctx, blockNumber) ==
    Bind(getHeaderByNumber(ctx, blockNumber), NoHeader, LAMBDA header :
         Ret(header.ctx, "none", header.val.hash))

\* ------------------------------------------------------------- getCkbDelta
\* The loop over this.inputs: the sum of what each input contributes.
RECURSIVE InputsCapacity(_, _)
InputsCapacity(ctx, cells) ==
    IF cells = <<>> THEN Ret(ctx, "none", 0)
    ELSE IF isDAODeposit(Head(cells))
    THEN Bind(getHeaderByNumber(ctx, Uint64LEunpack(Head(cells).data)), 0,
              LAMBDA depositHeader :
         Bind(getHeaderByNumber(depositHeader.ctx, Head(cells).blockNumber), 0,
              LAMBDA withdrawalHeader :
         Bind(InputsCapacity(withdrawalHeader.ctx, Tail(cells)), 0, LAMBDA rest :
              Ret(rest.ctx, "none",
                  calculateMaximumWithdrawCompatible(Head(cells), depositHeader.val.dao,
                                                     withdrawalHeader.val.dao)
                      + rest.val))))
    ELSE Bind(InputsCapacity(ctx, Tail(cells)), 0, LAMBDA rest :
              Ret(rest.ctx, "none", Head(cells).cellOutput.capacity + rest.val))

OutputsCapacity(cells) == SumSeq([i \in 1..Len(cells) |-> cells[i].cellOutput.capacity])

getCkbDelta(ctx, ins, outs) ==
    Bind(InputsCapacity(ctx, ins), 0, LAMBDA sum :
         Ret(sum.ctx, "none", sum.val - OutputsCapacity(outs)))

\* ---------------------------------------------------------------- skeleton
\* TransactionSkeleton(): the empty skeleton.
TransactionSkeleton ==
    [inputs |-> <<>>, outputs |-> <<>>, cellDeps |-> <<>>, headerDeps |-> <<>>,
     inputSinces |-> <<>>, witnesses |-> <<>>]

NoTransaction == [absent |-> TRUE]

\* ------------------------------------------------------------- addCellDeps
\* prefix2Name: the last registered name whose first prefix is `prefix`.
prefix2Name(prefix) ==
    ConfigNames[Max({i \in 1..Len(ConfigNames) : ConfigNames[i][1] = prefix})]

serializeScript(s) == <<s.codeHash, s.hashType>>

serializeCellDep(d) == <<d.outPoint.txHash, d.outPoint.index, d.depType>>

\* The names whose default script has the identity of s, by position.
RegistryMatches(s) ==
    {i \in 1..Len(ConfigNames) :
        serializeScript(defaultScript(ConfigNames[i])) = serializeScript(s)}

\* serializedScript2CellDeps.get(...): one CellDep per prefix of the name.
ScriptCellDeps(s) ==
    LET name == ConfigNames[Max(RegistryMatches(s))]
    IN  [k \in 1..Len(name) |-> defaultCellDeps(prefix2Name(name[k]))]

\* The scripts addCellDeps walks: the inputs' locks, then the present types
\* of the outputs followed by those of the inputs.
CollectScripts(tx) ==
    LET locks == [i \in 1..Len(tx.inputs) |-> tx.inputs[i].cellOutput.lock]
        typed == SelectSeq(tx.outputs \o tx.inputs, LAMBDA c : c.cellOutput.type # NoScript)
    IN  locks \o [i \in 1..Len(typed) |-> typed[i].cellOutput.type]

\* Mutant: every CellDep is appended, seen before or not.
SetCellDepsKeepingDuplicates(acc, deps) == acc \o deps

\* Map.set by serialized CellDep: a key seen again keeps its first position.
RECURSIVE SetCellDeps(_, _)
SetCellDeps(acc, deps) ==
    IF deps = <<>> THEN acc
    ELSE LET d == Head(deps)
             seen == \E i \in 1..Len(acc) : serializeCellDep(acc[i]) = serializeCellDep(d)
         IN  SetCellDeps(IF seen THEN acc ELSE Append(acc, d), Tail(deps))

\* Mutant: a script the registry does not know is skipped.
RECURSIVE ResolveCellDepsFailOpen(_, _)
ResolveCellDepsFailOpen(scripts, acc) ==
    IF scripts = <<>> THEN [err |-> "none", val |-> acc]
    ELSE IF RegistryMatches(Head(scripts)) = {}
    THEN ResolveCellDepsFailOpen(Tail(scripts), acc)
    ELSE ResolveCellDepsFailOpen(Tail(scripts),
                                 SetCellDeps(acc, ScriptCellDeps(Head(scripts))))

RECURSIVE ResolveCellDeps(_, _)
ResolveCellDeps(scripts, acc) ==
    IF scripts = <<>> THEN [err |-> "none", val |-> acc]
    ELSE IF RegistryMatches(Head(scripts)) = {}
    THEN [err |-> "UnresolvedScript", val |-> <<>>]
    ELSE ResolveCellDeps(Tail(scripts), SetCellDeps(acc, ScriptCellDeps(Head(scripts))))

addCellDeps(tx) ==
    IF tx.cellDeps # <<>> THEN [err |-> "AlreadyPopulated", val |-> NoTransaction]
    ELSE LET r == ResolveCellDeps(CollectScripts(tx), <<>>)
         IN  IF r.err # "none" THEN [err |-> r.err, val |-> NoTransaction]
             ELSE [err |-> "none", val |-> [tx EXCEPT !.cellDeps = @ \o r.val]]

\* ----------------------------------------------------------- addHeaderDeps
\* Mutant: a withdrawal contributes the hash of its own block only.
RECURSIVE CollectBlockHashesOwnOnly(_, _, _)
CollectBlockHashesOwnOnly(ctx, cells, uniqueBlockHashes) ==
    IF cells = <<>> THEN Ret(ctx, "none", uniqueBlockHashes)
    ELSE IF Head(cells).blockNumber = NoBlockNumber
    THEN Ret(ctx, "MissingBlockNumber", <<>>)
    ELSE IF isDAODeposit(Head(cells)) \/ isDAOWithdrawal(Head(cells))
    THEN Bind(getBlockHash(ctx, Head(cells).blockNumber), <<>>, LAMBDA own :
              CollectBlockHashesOwnOnly(own.ctx, Tail(cells),
                                        InsertAll(uniqueBlockHashes, <<own.val>>)))
    ELSE CollectBlockHashesOwnOnly(ctx, Tail(cells), uniqueBlockHashes)

RECURSIVE CollectBlockHashes(_, _, _)
CollectBlockHashes(ctx, cells, uniqueBlockHashes) ==
    IF cells = <<>> THEN Ret(ctx, "none", uniqueBlockHashes)
    ELSE IF Head(cells).blockNumber = NoBlockNumber
    THEN Ret(ctx, "MissingBlockNumber", <<>>)
    ELSE IF isDAODeposit(Head(cells))
    THEN Bind(getBlockHash(ctx, Head(cells).blockNumber), <<>>, LAMBDA own :
              CollectBlockHashes(own.ctx, Tail(cells),
                                 InsertAll(uniqueBlockHashes, <<own.val>>)))
    ELSE IF isDAOWithdrawal(Head(cells))
    THEN Bind(getBlockHash(ctx, Head(cells).blockNumber), <<>>, LAMBDA own :
         Bind(getBlockHash(own.ctx, Uint64LEunpack(Head(cells).data)), <<>>, LAMBDA deposit :
              CollectBlockHashes(deposit.ctx, Tail(cells),
                                 InsertAll(uniqueBlockHashes, <<own.val, deposit.val>>))))
    ELSE CollectBlockHashes(ctx, Tail(cells), uniqueBlockHashes)

\* Mutant: a populated headerDeps is accepted and appended to.
addHeaderDepsUnguarded(ctx, tx) ==
    Bind(CollectBlockHashes(ctx, tx.inputs, <<>>), NoTransaction, LAMBDA hashes :
         Ret(hashes.ctx, "none", [tx EXCEPT !.headerDeps = @ \o hashes.val]))

addHeaderDeps(ctx, tx) ==
    IF tx.headerDeps # <<>> THEN Ret(ctx, "AlreadyPopulated", NoTransaction)
    ELSE Bind(CollectBlockHashes(ctx, tx.inputs, <<>>), NoTransaction, LAMBDA hashes :
              Ret(hashes.ctx, "none", [tx EXCEPT !.headerDeps = @ \o hashes.val]))

\* ---------------------------------------------------------- addInputSinces
\* Map.set on the sparse inputSinces map (keys are 0-based input indexes).
MapSet(m, k, v) == [x \in (DOMAIN m) \cup {k} |-> IF x = k THEN v ELSE m[x]]

\* Mutant: the two headers are taken for each other.
withdrawedDaoSinceSwapped(ctx, c) ==
    IF ~isDAOWithdrawal(c) THEN Ret(ctx, "NotAWithdrawalCell", 0)
    ELSE Bind(getHeaderByNumber(ctx, c.blockNumber), 0, LAMBDA withdrawalHeader :
         Bind(getHeaderByNumber(withdrawalHeader.ctx, Uint64LEunpack(c.data)), 0,
              LAMBDA depositHeader :
              Ret(depositHeader.ctx, "none",
                  calculateDaoEarliestSinceCompatible(withdrawalHeader.val.epoch,
                                                      depositHeader.val.epoch))))

withdrawedDaoSince(ctx, c) ==
    IF ~isDAOWithdrawal(c) THEN Ret(ctx, "NotAWithdrawalCell", 0)
    ELSE Bind(getHeaderByNumber(ctx, c.blockNumber), 0, LAMBDA withdrawalHeader :
         Bind(getHeaderByNumber(withdrawalHeader.ctx, Uint64LEunpack(c.data)), 0,
              LAMBDA depositHeader :
              Ret(depositHeader.ctx, "none",
                  calculateDaoEarliestSinceCompatible(depositHeader.val.epoch,
                                                      withdrawalHeader.val.epoch))))

RECURSIVE ResolveSinces(_, _, _, _)
ResolveSinces(ctx, cells, index, inputSinces) ==
    IF cells = <<>> THEN Ret(ctx, "none", inputSinces)
    ELSE IF isDAOWithdrawal(Head(cells))
    THEN Bind(withdrawedDaoSince(ctx, Head(cells)), <<>>, LAMBDA since :
              ResolveSinces(since.ctx, Tail(cells), index + 1,
                            MapSet(inputSinces, index, since.val)))
    ELSE ResolveSinces(ctx, Tail(cells), index + 1, inputSinces)

\* Mutant: the input indexes are counted from one.
addInputSincesOneBased(ctx, tx) ==
    IF DOMAIN tx.inputSinces # {} THEN Ret(ctx, "AlreadyPopulated", NoTransaction)
    ELSE Bind(ResolveSinces(ctx, tx.inputs, 1, tx.inputSinces), NoTransaction,
              LAMBDA sinces : Ret(sinces.ctx, "none", [tx EXCEPT !.inputSinces = sinces.val]))

addInputSinces(ctx, tx) ==
    IF DOMAIN tx.inputSinces # {} THEN Ret(ctx, "AlreadyPopulated", NoTransaction)
    ELSE Bind(ResolveSinces(ctx, tx.inputs, 0, tx.inputSinces), NoTransaction,
              LAMBDA sinces : Ret(sinces.ctx, "none", [tx EXCEPT !.inputSinces = sinces.val]))

\* --------------------------------------------------- addWitnessPlaceholders
\* A witness is held as its WitnessArgs (packing is injective): the bytes of
\* the lock field and the bytes of the inputType field, <<>> when not set.
WitnessArgs(lock, inputType) == [lock |-> lock, inputType |-> inputType]

LockPlaceholder == [i \in 1..SignaturePlaceholderLen |-> 0]

\* Mutant: the count-down is not consulted.
PaddedEveryMatch(c, accountLock, paddingCountDown) ==
    scriptEq(c.cellOutput.lock, accountLock)

\* The lock field of the witness of cell c, and the count-down after it.
Padded(c, accountLock, paddingCountDown) ==
    paddingCountDown > 0 /\ scriptEq(c.cellOutput.lock, accountLock)

WitnessLock(c, accountLock, paddingCountDown) ==
    IF Padded(c, accountLock, paddingCountDown) THEN LockPlaceholder ELSE <<>>

CountDownAfter(c, accountLock, paddingCountDown) ==
    IF Padded(c, accountLock, paddingCountDown) THEN paddingCountDown - 1
    ELSE paddingCountDown

\* The inputType field of a deposit's witness: the position of blockHash in
\* the header dependencies, or the HeaderDepNotFound throw.
HeaderDepIndex(ctx, headerDeps, blockHash) ==
    IF findIndex(headerDeps, blockHash) = -1 THEN Ret(ctx, "HeaderDepNotFound", <<>>)
    ELSE Ret(ctx, "none", Uint64LEpack(findIndex(headerDeps, blockHash)))

RECURSIVE BuildWitnesses(_, _, _, _, _, _)
BuildWitnesses(ctx, cells, headerDeps, accountLock, paddingCountDown, witnesses) ==
    IF cells = <<>> THEN Ret(ctx, "none", witnesses)
    ELSE IF isDAODeposit(Head(cells))
    THEN Bind(getBlockHash(ctx, Uint64LEunpack(Head(cells).data)), <<>>, LAMBDA blockHash :
         Bind(HeaderDepIndex(blockHash.ctx, headerDeps, blockHash.val), <<>>,
              LAMBDA inputType :
              BuildWitnesses(inputType.ctx, Tail(cells), headerDeps, accountLock,
                  CountDownAfter(Head(cells), accountLock, paddingCountDown),
                  Append(witnesses,
                         WitnessArgs(WitnessLock(Head(cells), accountLock, paddingCountDown),
                                     inputType.val)))))
    ELSE BuildWitnesses(ctx, Tail(cells), headerDeps, accountLock,
             CountDownAfter(Head(cells), accountLock, paddingCountDown),
             Append(witnesses,
                    WitnessArgs(WitnessLock(Head(cells), accountLock, paddingCountDown), <<>>)))

\* paddingCountDown: only the first occurrence, or all of them for PWLOCK.
InitialPadding(tx, accountLock) ==
    IF <<"PWLOCK">> \in ConfigScripts /\ isScript(accountLock, defaultScript(<<"PWLOCK">>))
    THEN Len(tx.inputs)
    ELSE 1

addWitnessPlaceholders(ctx, tx, accountLock) ==
    IF tx.witnesses # <<>> THEN Ret(ctx, "AlreadyPopulated", NoTransaction)
    ELSE Bind(BuildWitnesses(ctx, tx.inputs, tx.headerDeps, accountLock,
                             InitialPadding(tx, accountLock), <<>>),
              NoTransaction,
              LAMBDA built : Ret(built.ctx, "none", [tx EXCEPT !.witnesses = @ \o built.val]))

\* ------------------------------------------------------ txSize, calculateFee
\* Molecule sizes. A table of n fields has a 4-byte size and n 4-byte offsets;
\* a dynamic vector likewise; a fixed vector has a 4-byte count.
ScriptSize(sc) == 16 + 32 + 1 + (4 + ArgsLen(sc.args))

CellOutputSize(c) ==
    16 + 8 + ScriptSize(c.cellOutput.lock)
       + (IF c.cellOutput.type = NoScript THEN 0 ELSE ScriptSize(c.cellOutput.type))

WitnessSize(w) ==
    16 + (4 + Len(w.lock)) + (IF w.inputType = <<>> THEN 0 ELSE 4 + Len(w.inputType))

RawTransactionSize(tx) ==
    28 + 4
       + (4 + 37 * Len(tx.cellDeps))
       + (4 + 32 * Len(tx.headerDeps))
       + (4 + 44 * Len(tx.inputs))
       + (4 + SumSeq([i \in 1..Len(tx.outputs) |-> 4 + CellOutputSize(tx.outputs[i])]))
       + (4 + SumSeq([i \in 1..Len(tx.outputs) |-> 4 + 4 + Len(tx.outputs[i].data)]))

txSize(tx) ==
    LET witnesses ==
            4 + SumSeq([i \in 1..Len(tx.witnesses) |-> 4 + 4 + WitnessSize(tx.witnesses[i])])
        byteLength == 12 + RawTransactionSize(tx) + witnesses
    IN  byteLength + TxSizeOffset

\* Mutant: the quotient is not rounded up.
calculateFeeRoundedDown(size, feeRate) == (size * feeRate) \div FeeRatio

calculateFee(size, feeRate) ==
    LET ratio == FeeRatio
        base == size * feeRate
        fee == base \div ratio
    IN  IF fee * ratio < base THEN fee + 1 ELSE fee

\* ---------------------------------------------------------- buildWithChange
ChangeCell(accountLock, ckbDelta) ==
    [cellOutput |-> [capacity |-> ckbDelta, lock |-> accountLock, type |-> NoScript],
     data |-> <<>>]

\* Mutant: a negative delta is taken for "nothing to give back".
ChangeCellsNegativeIgnored(accountLock, ckbDelta) ==
    IF ckbDelta <= 0 THEN [err |-> "none", val |-> <<>>]
    ELSE IF ckbDelta >= minimalCellCapacityCompatible(ChangeCell(accountLock, ckbDelta))
    THEN [err |-> "none", val |-> <<ChangeCell(accountLock, ckbDelta)>>]
    ELSE [err |-> "InsufficientFunds", val |-> <<>>]

\* The change cells of buildWithChange: none for a zero delta, one for a delta
\* of at least the change cell's minimal capacity, and an error otherwise.
ChangeCells(accountLock, ckbDelta) ==
    IF ckbDelta = 0 THEN [err |-> "none", val |-> <<>>]
    ELSE LET changeCell == ChangeCell(accountLock, ckbDelta)
             minimalCapacity == minimalCellCapacityCompatible(changeCell)
         IN  IF ckbDelta >= minimalCapacity
             THEN [err |-> "none", val |-> <<changeCell>>]
             ELSE [err |-> "InsufficientFunds", val |-> <<>>]

buildWithChange(ctx, ins, outs, accountLock, ckbDelta) ==
    Bind(Lift(ctx, ChangeCells(accountLock, ckbDelta)), NoTransaction, LAMBDA change :
    Bind(Lift(ctx, addCellDeps([TransactionSkeleton EXCEPT
                                    !.inputs = @ \o ins,
                                    !.outputs = @ \o outs \o change.val])),
         NoTransaction, LAMBDA t1 :
    Bind(addHeaderDeps(t1.ctx, t1.val), NoTransaction, LAMBDA t2 :
    Bind(addInputSinces(t2.ctx, t2.val), NoTransaction, LAMBDA t3 :
         addWitnessPlaceholders(t3.ctx, t3.val, accountLock)))))

\* ----------------------------------------------------- toTransactionSkeleton
NoBuild == [absent |-> TRUE]

\* Mutant: the second pass is built with the whole delta, the fee not deducted.
toTransactionSkeletonFeeNotDeducted(ctx, ins, outs, accountLock, rate) ==
    Bind(getCkbDelta(ctx, ins, outs), NoBuild, LAMBDA ckbDelta :
    Bind(buildWithChange(ckbDelta.ctx, ins, outs, accountLock, ckbDelta.val),
         NoBuild, LAMBDA provisional :
    Bind(buildWithChange(provisional.ctx, ins, outs, accountLock, ckbDelta.val),
         NoBuild, LAMBDA final :
         Ret(final.ctx, "none",
             [transaction |-> final.val,
              fee |-> calculateFee(txSize(provisional.val), rate)]))))

toTransactionSkeleton(ctx, ins, outs, accountLock, rate) ==
    Bind(getCkbDelta(ctx, ins, outs), NoBuild, LAMBDA ckbDelta :
    Bind(buildWithChange(ckbDelta.ctx, ins, outs, accountLock, ckbDelta.val),
         NoBuild, LAMBDA provisional :
    Bind(buildWithChange(provisional.ctx, ins, outs, accountLock,
                         ckbDelta.val - calculateFee(txSize(provisional.val), rate)),
         NoBuild, LAMBDA final :
         Ret(final.ctx, "none",
             [transaction |-> final.val,
              fee |-> calculateFee(txSize(provisional.val), rate)]))))

\* ==================================================================== state
VARIABLES
    accountLock,        \* the builder's account lock
    feeRate,            \* the builder's fee rate
    customBuildStep,    \* the pre-build hook: "resolves" or "rejects"
    inputs,             \* accumulated input cells
    outputs,            \* accumulated output cells
    blockNumber2Header, \* the builder's header cache
    knownHeaders,       \* the block numbers seeded at construction
    rpcCalls,           \* adapter getHeaderByNumber calls made, per block number
    result,             \* what the last call on the builder returned or threw
    pc,                 \* position of the buildAndSend call in progress
    secondsTimeout,     \* its timeout argument
    i,                  \* loop counter of sendTransaction
    polls,              \* adapter getTransaction calls made by the call
    submits,            \* adapter sendTransaction calls made by the call
    signerCalls,        \* signer invocations made by the call
    lastStatus,         \* status the last poll reported ("none" before any poll)
    waitedOnly          \* every poll before the last reported pending or proposed

builderVars ==
    <<accountLock, feeRate, customBuildStep, inputs, outputs, blockNumber2Header,
      knownHeaders, rpcCalls>>

sendVars == <<pc, secondsTimeout, i, polls, submits, signerCalls, lastStatus, waitedOnly>>

vars == <<builderVars, result, sendVars>>

Context == [cache |-> blockNumber2Header, calls |-> rpcCalls]

NoResult == [op |-> "none", err |-> "none", val |-> NoBuild]

\* new Map(knownHeaders.map(h => [h.number, h]))
SeedCache(known) == [n \in BlockNumbers |-> IF n \in known THEN ChainHeader(n) ELSE NoHeader]

\* The header sets a builder is constructed with.
KnownHeaderSets == {{}}

InitSend ==
    /\ pc = "idle"
    /\ secondsTimeout = 0
    /\ i = 0
    /\ polls = 0
    /\ submits = 0
    /\ signerCalls = 0
    /\ lastStatus = "none"
    /\ waitedOnly = TRUE

\* The state after construction.
Init ==
    /\ accountLock \in AccountLocks
    /\ feeRate \in FeeRates
    /\ customBuildStep = "resolves"
    /\ inputs = <<>>
    /\ outputs = <<>>
    /\ knownHeaders \in KnownHeaderSets
    /\ blockNumber2Header = SeedCache(knownHeaders)
    /\ rpcCalls = [n \in BlockNumbers |-> 0]
    /\ result = NoResult
    /\ InitSend

\* ------------------------------------------------------------------- add
\* unshift / push, then the block-number test over the updated list.
AddedTo(list, position, cells) == IF position = "start" THEN cells \o list ELSE list \o cells

\* Mutant: only the newly supplied cells are tested for a block number.
AddInputChecksNewOnly(position, cells) ==
    /\ pc = "idle"
    /\ Len(inputs) + Len(cells) <= MaxInputs
    /\ inputs' = AddedTo(inputs, position, cells)
    /\ result' = [op |-> "add",
                  err |-> IF \E k \in 1..Len(cells) : cells[k].blockNumber = NoBlockNumber
                          THEN "MissingBlockNumber" ELSE "none",
                  val |-> NoBuild]
    /\ UNCHANGED <<accountLock, feeRate, customBuildStep, outputs, blockNumber2Header,
                   knownHeaders, rpcCalls, sendVars>>

AddInput(position, cells) ==
    /\ pc = "idle"
    /\ Len(inputs) + Len(cells) <= MaxInputs
    /\ inputs' = AddedTo(inputs, position, cells)
    /\ result' = [op |-> "add",
                  err |-> IF \E k \in 1..Len(inputs') : inputs'[k].blockNumber = NoBlockNumber
                          THEN "MissingBlockNumber" ELSE "none",
                  val |-> NoBuild]
    /\ UNCHANGED <<accountLock, feeRate, customBuildStep, outputs, blockNumber2Header,
                   knownHeaders, rpcCalls, sendVars>>

AddOutput(position, cells) ==
    /\ pc = "idle"
    /\ Len(outputs) + Len(cells) <= MaxOutputs
    /\ outputs' = AddedTo(outputs, position, cells)
    /\ result' = [op |-> "add", err |-> "none", val |-> NoBuild]
    /\ UNCHANGED <<accountLock, feeRate, customBuildStep, inputs, blockNumber2Header,
                   knownHeaders, rpcCalls, sendVars>>

\* ----------------------------------------------------------------- build
\* The adapter-call counters are capped: a call starts only below MaxCalls.
CallsBelowCap == \A n \in BlockNumbers : rpcCalls[n] < MaxCalls

\* A call that ran against the header cache ends: the cache and the adapter
\* calls are as it left them, and the caller holds what it returned or threw.
Returns(op, r) ==
    /\ blockNumber2Header' = r.ctx.cache
    /\ rpcCalls' = r.ctx.calls
    /\ result' = [op |-> op, err |-> r.err, val |-> r.val]

\* Mutant: the outputs of the returned skeleton, change included, become the
\* accumulated outputs.
BuildKeepingChange ==
    /\ pc = "idle"
    /\ CallsBelowCap
    /\ Returns("build", toTransactionSkeleton(Context, inputs, outputs, accountLock, feeRate))
    /\ outputs' = IF result'.err = "none" THEN result'.val.transaction.outputs ELSE outputs
    /\ UNCHANGED <<accountLock, feeRate, customBuildStep, inputs, knownHeaders, sendVars>>

Build ==
    /\ pc = "idle"
    /\ CallsBelowCap
    /\ Returns("build", toTransactionSkeleton(Context, inputs, outputs, accountLock, feeRate))
    /\ UNCHANGED <<accountLock, feeRate, customBuildStep, inputs, outputs, knownHeaders,
                   sendVars>>

\* getCkbDelta is public: a caller may ask for the delta alone.
GetCkbDelta ==
    /\ pc = "idle"
    /\ CallsBelowCap
    /\ Returns("getCkbDelta", getCkbDelta(Context, inputs, outputs))
    /\ UNCHANGED <<accountLock, feeRate, customBuildStep, inputs, outputs, knownHeaders,
                   sendVars>>

\* A batch is at most MaxBatch cells and fits what the lists may still take.
Next ==
    \/ \E position \in {"start", "end"},
          cells \in SeqsUpTo(InputCells, Min(MaxBatch, MaxInputs - Len(inputs))) :
          AddInput(position, cells)
    \/ \E position \in {"start", "end"},
          cells \in SeqsUpTo(OutputCells, Min(MaxBatch, MaxOutputs - Len(outputs))) :
          AddOutput(position, cells)
    \/ GetCkbDelta
    \/ Build

Spec == Init /\ [][Next]_vars

\* --------------------------------------------------------- header lookups
\* A lookup together with the block number it was asked for.
Asked(blockNumber, r) ==
    Ret(r.ctx, r.err, [blockNumber |-> blockNumber, header |-> r.val])

\* this.getHeaderByNumber(blockNumber), called on its own.
GetHeaderByNumber(blockNumber) ==
    /\ pc = "idle"
    /\ CallsBelowCap
    /\ Returns("getHeaderByNumber", Asked(blockNumber, getHeaderByNumber(Context, blockNumber)))
    /\ UNCHANGED <<accountLock, feeRate, customBuildStep, inputs, outputs, knownHeaders,
                   sendVars>>

\* The inputs of the builders whose header lookups are followed: none, a
\* deposit, a withdrawal, and a withdrawal of a deposit in a block the adapter
\* has no header for.
HeaderInputs ==
    { <<>> } \cup
    { <<c>> : c \in {d \in InputCells : d.outPoint \in {"in_deposit", "in_withdrawal"}} } \cup
    { <<Cell("in_withdrawal_lost", 300 * ShannonsPerByte, PwLockA, DaoType,
             Uint64LEpack(ChainTip + 1), 2)>> }

\* A builder constructed with some of the chain's headers already known.
HeaderInit ==
    /\ accountLock = PwLockA
    /\ feeRate = DefaultFeeRate
    /\ customBuildStep = "resolves"
    /\ inputs \in HeaderInputs
    /\ outputs = <<>>
    /\ knownHeaders \in SUBSET (0..ChainTip)
    /\ blockNumber2Header = SeedCache(knownHeaders)
    /\ rpcCalls = [n \in BlockNumbers |-> 0]
    /\ result = NoResult
    /\ InitSend

HeaderNext ==
    \/ \E blockNumber \in BlockNumbers : GetHeaderByNumber(blockNumber)
    \/ GetCkbDelta
    \/ Build

HeaderSpec == HeaderInit /\ [][HeaderNext]_vars

\* ------------------------------------------------------------ pure helpers
\* The parsed epochs the helpers are applied to: small fields and the largest
\* ones (number in 24 bits, index and length in 12 bits).
EpochFractions == (0..MaxEpochFraction) \cup {4095}

Epochs ==
    [length : EpochFractions, index : EpochFractions, number : {0, 1, 16777215}]

\* The sizes and fee rates calculateFee is applied to.
FeeSizes == (0..MaxFeeSize) \cup {355, 999, 1000, 1001}

HelperFeeRates == (0..MaxFeeRate) \cup {999, 1000, 1001}

\* A call of a pure helper about to be made, with its arguments.
Pending(helper, args) ==
    [op |-> "pending", err |-> "none", val |-> [helper |-> helper, args |-> args]]

\* The call is made: the caller holds the arguments and the value.
Applied(helper, value) ==
    /\ result.op = "pending"
    /\ result.val.helper = helper
    /\ result' = [op |-> helper, err |-> "none",
                  val |-> [args |-> result.val.args, value |-> value]]
    /\ UNCHANGED <<builderVars, sendVars>>

EpochCompare == Applied("epochCompare", epochCompare(result.val.args[1], result.val.args[2]))

StringifyEpoch == Applied("stringifyEpoch", stringifyEpoch(result.val.args[1]))

ParseEpoch == Applied("parseEpoch", parseEpoch(result.val.args[1]))

CalculateFee == Applied("calculateFee", calculateFee(result.val.args[1], result.val.args[2]))

HelperNext ==
    \/ EpochCompare
    \/ StringifyEpoch
    \/ ParseEpoch
    \/ CalculateFee

\* The calls made. The helpers need no builder; the builder variables are as
\* constructed.
HelperInit ==
    /\ accountLock = SecpLockA
    /\ feeRate = DefaultFeeRate
    /\ customBuildStep = "resolves"
    /\ inputs = <<>>
    /\ outputs = <<>>
    /\ knownHeaders = {}
    /\ blockNumber2Header = SeedCache(knownHeaders)
    /\ rpcCalls = [n \in BlockNumbers |-> 0]
    /\ \/ result \in {Pending("epochCompare", <<e0, e1>>) : e0 \in Epochs, e1 \in Epochs}
       \/ result \in {Pending("stringifyEpoch", <<e>>) : e \in Epochs}
       \/ result \in {Pending("parseEpoch", <<stringifyEpoch(e)>>) : e \in Epochs}
       \/ result \in {Pending("calculateFee", <<size, rate>>) :
                         size \in FeeSizes, rate \in HelperFeeRates}
    /\ InitSend

HelperSpec == HelperInit /\ [][HelperNext]_vars

\* ------------------------------------------------------------- buildAndSend
DefaultTimeout == 600

\* The timeouts a caller passes: small ones and the default.
Timeouts == (0..MaxTimeout) \cup {DefaultTimeout}

\* The statuses the adapter's getTransaction may report.
Statuses == {"pending", "proposed", "committed", "rejected", "unknown"}

\* Mutant: the "proposed" case falls through to the return of "committed".
OnStatusProposedReturns(status) ==
    CASE status \in {"committed", "proposed"} -> "return"
      [] status = "pending" -> "wait"
      [] OTHER -> "throw"

\* Mutant: the default case waits like pending instead of throwing.
OnStatusDefaultWaits(status) ==
    CASE status = "committed" -> "return"
      [] OTHER -> "wait"

\* The switch of sendTransaction on the reported status.
OnStatus(status) ==
    CASE status = "committed" -> "return"
      [] status \in {"pending", "proposed"} -> "wait"
      [] OTHER -> "throw"

\* The loop test of sendTransaction.
LoopContinues(count, timeout) == count < timeout

Thrown(err) == [op |-> "buildAndSend", err |-> err, val |-> NoBuild]

\* buildAndSend(secondsTimeout) is called: its first stage is the hook.
BuildAndSend(timeout) ==
    /\ pc = "idle"
    /\ pc' = "customBuildStep"
    /\ secondsTimeout' = timeout
    /\ result' = NoResult
    /\ UNCHANGED <<builderVars, i, polls, submits, signerCalls, lastStatus, waitedOnly>>

\* await this.customBuildStep(this)
RunCustomBuildStep ==
    /\ pc = "customBuildStep"
    /\ IF customBuildStep = "resolves"
       THEN pc' = "toTransactionSkeleton" /\ UNCHANGED result
       ELSE pc' = "done" /\ result' = Thrown("CustomBuildStepFailed")
    /\ UNCHANGED <<builderVars, secondsTimeout, i, polls, submits, signerCalls, lastStatus,
                   waitedOnly>>

\* Mutant: the call goes on to the signer whatever the build did.
RunBuildThenSignerAnyway ==
    /\ pc = "toTransactionSkeleton"
    /\ Returns("buildAndSend",
               toTransactionSkeleton(Context, inputs, outputs, accountLock, feeRate))
    /\ pc' = "signer"
    /\ UNCHANGED <<accountLock, feeRate, customBuildStep, inputs, outputs, knownHeaders,
                   secondsTimeout, i, polls, submits, signerCalls, lastStatus, waitedOnly>>

\* await this.toTransactionSkeleton()
RunBuild ==
    /\ pc = "toTransactionSkeleton"
    /\ Returns("buildAndSend",
               toTransactionSkeleton(Context, inputs, outputs, accountLock, feeRate))
    /\ pc' = IF result'.err = "none" THEN "signer" ELSE "done"
    /\ UNCHANGED <<accountLock, feeRate, customBuildStep, inputs, outputs, knownHeaders,
                   secondsTimeout, i, polls, submits, signerCalls, lastStatus, waitedOnly>>

\* await this.signer(transaction, this.accountLock): it signs or fails.
RunSigner(signs) ==
    /\ pc = "signer"
    /\ signerCalls' = signerCalls + 1
    /\ IF signs
       THEN pc' = "sendTransaction" /\ UNCHANGED result
       ELSE pc' = "done" /\ result' = Thrown("SigningFailed")
    /\ UNCHANGED <<builderVars, secondsTimeout, i, polls, submits, lastStatus, waitedOnly>>

\* rpc.sendTransaction(signedTransaction): the adapter accepts or rejects it.
SendTransaction(accepted) ==
    /\ pc = "sendTransaction"
    /\ submits' = submits + 1
    /\ i' = 0
    /\ IF accepted
       THEN pc' = "getTransaction" /\ UNCHANGED result
       ELSE pc' = "done" /\ result' = Thrown("SendTransactionFailed")
    /\ UNCHANGED <<builderVars, secondsTimeout, polls, signerCalls, lastStatus, waitedOnly>>

\* One iteration of the poll loop: rpc.getTransaction(txHash) and the switch.
Poll(status) ==
    /\ pc = "getTransaction"
    /\ LoopContinues(i, secondsTimeout)
    /\ polls' = polls + 1
    /\ lastStatus' = status
    /\ waitedOnly' = (waitedOnly /\ lastStatus \in {"none", "pending", "proposed"})
    /\ IF OnStatus(status) = "return"
       THEN /\ pc' = "done"
            /\ result' = [result EXCEPT !.val = [transaction |-> result.val.transaction,
                                                 fee |-> result.val.fee,
                                                 txHash |-> "txHash"]]
            /\ UNCHANGED i
       ELSE IF OnStatus(status) = "wait"
       THEN /\ i' = i + 1
            /\ UNCHANGED <<pc, result>>
       ELSE /\ pc' = "done"
            /\ result' = Thrown("UnexpectedTransactionStatus")
            /\ UNCHANGED i
    /\ UNCHANGED <<builderVars, secondsTimeout, submits, signerCalls>>

\* The loop ran out: "Transaction timed out".
TimeOut ==
    /\ pc = "getTransaction"
    /\ ~LoopContinues(i, secondsTimeout)
    /\ pc' = "done"
    /\ result' = Thrown("SubmissionTimedOut")
    /\ UNCHANGED <<builderVars, secondsTimeout, i, polls, submits, signerCalls, lastStatus,
                   waitedOnly>>

\* Cells a builder holds when buildAndSend is called.
SendInputCells == {c \in InputCells : c.outPoint \in {"in_plain_a", "in_pw_a", "in_unknown"}}

\* Outputs it holds: those above, and one whose type no registry entry names.
SendOutputCells ==
    OutputCells \cup
        {Cell("out_unknown", 100 * ShannonsPerByte, SecpLockB, UnknownType, <<>>, NoBlockNumber)}

\* A builder after some adds, about to be sent.
SendInit ==
    /\ accountLock \in AccountLocks
    /\ feeRate \in FeeRates
    /\ customBuildStep \in {"resolves", "rejects"}
    /\ inputs \in {<<>>} \cup SeqsUpTo(SendInputCells, MaxInputs)
    /\ outputs \in {<<>>} \cup SeqsUpTo(SendOutputCells, 1)
    /\ knownHeaders = {}
    /\ blockNumber2Header = SeedCache(knownHeaders)
    /\ rpcCalls = [n \in BlockNumbers |-> 0]
    /\ result = NoResult
    /\ InitSend

SendNext ==
    \/ \E timeout \in Timeouts : BuildAndSend(timeout)
    \/ RunCustomBuildStep
    \/ RunBuild
    \/ \E signs \in BOOLEAN : RunSigner(signs)
    \/ \E accepted \in BOOLEAN : SendTransaction(accepted)
    \/ \E status \in Statuses : Poll(status)
    \/ TimeOut

SendSpec == SendInit /\ [][SendNext]_vars

\* The builder of the end-to-end scenario: one ordinary input of the account,
\* one output to the same lock, the default fee rate and hook.
ScenarioInit ==
    /\ SendInit
    /\ accountLock = SecpLockA
    /\ feeRate = DefaultFeeRate
    /\ customBuildStep = "resolves"
    /\ Len(inputs) = 1
    /\ inputs[1].outPoint = "in_plain_a"
    /\ Len(outputs) = 1
    /\ outputs[1].outPoint = "out_a"

\* The call is a task the scheduler keeps running: an iteration of the poll
\* loop that can run does, and so does the throw after the loop.
PollNext == \E status \in Statuses : Poll(status)

FairSendSpec ==
    ScenarioInit /\ [][SendNext]_vars /\ WF_vars(PollNext) /\ WF_vars(TimeOut)

\* =================================================================== claims
\* What the formulas below read off the state after a build.
BuildReturned == result.op = "build" /\ result.err = "none"

BuildThrew(err) == result.op = "build" /\ result.err = err

\* The net capacity delta of the accumulated cells, as getCkbDelta computes it.
Delta == getCkbDelta(Context, inputs, outputs)

\* The provisional skeleton: the first pass, built with change = delta.
Provisional == buildWithChange(Context, inputs, outputs, accountLock, Delta.val)

ProvisionalFee == calculateFee(txSize(Provisional.val), feeRate)

\* The outputs of the returned skeleton beyond the accumulated ones.
ChangeOutputs(tx) == SubSeq(tx.outputs, Len(outputs) + 1, Len(tx.outputs))

ChangeCapacity(tx) ==
    IF ChangeOutputs(tx) = <<>> THEN 0 ELSE ChangeOutputs(tx)[1].cellOutput.capacity

MinimalChange(amount) == minimalCellCapacityCompatible(ChangeCell(accountLock, amount))

\* A change amount buildWithChange refuses: non-zero and below the minimum.
Refused(amount) == amount # 0 /\ amount < MinimalChange(amount)

\* C1: whenever build succeeds, the delta of the accumulated cells equals the
\* capacity of the change output (0 if there is none) plus the returned fee;
\* the fee is calculateFee of the size of the provisional skeleton (built with
\* change = delta) and the change capacity is exactly delta - fee.
C1_BalancedAgainstFee ==
    BuildReturned =>
        LET tx == result.val.transaction
            fee == result.val.fee
        IN  /\ Delta.err = "none"
            /\ Provisional.err = "none"
            /\ fee = ProvisionalFee
            /\ Len(ChangeOutputs(tx)) <= 1
            /\ ChangeCapacity(tx) = Delta.val - fee
            /\ Delta.val = ChangeCapacity(tx) + fee
            /\ SubSeq(tx.outputs, 1, Len(outputs)) = outputs

\* C1 witness: a build that returned a skeleton with a change output and a fee.
C1_Witness ==
    /\ BuildReturned
    /\ result.val.fee > 0
    /\ ChangeOutputs(result.val.transaction) # <<>>

\* A build ran far enough to decide on the change: getCkbDelta returned.
BuildDecided == result.op = "build" /\ Delta.err = "none"

\* C2 as stated: build fails with InsufficientFunds only when the required
\* change is positive but below the minimal capacity, and a build over a zero
\* delta omits the change and returns the accumulated outputs as they are.
C2_AsStated ==
    BuildDecided =>
        /\ BuildThrew("InsufficientFunds") =>
              LET required == IF Refused(Delta.val) THEN Delta.val
                              ELSE Delta.val - ProvisionalFee
              IN  required > 0 /\ required < MinimalChange(required)
        /\ (Delta.val = 0 /\ Provisional.err = "none") =>
              /\ BuildReturned
              /\ result.val.transaction.outputs = outputs

\* C2 (amended): build fails with InsufficientFunds exactly when the change
\* amount of a pass (the delta in the first pass, the delta minus the fee in
\* the second) is non-zero and below the minimal capacity, negative amounts
\* included; a pass whose change amount is exactly zero omits the change
\* output, so a build over a zero delta returns the accumulated outputs as
\* they are if the fee is zero and fails with InsufficientFunds otherwise.
C2_InsufficientFunds ==
    BuildDecided =>
        /\ Refused(Delta.val) => BuildThrew("InsufficientFunds")
        /\ (~Refused(Delta.val) /\ Provisional.err = "none") =>
              IF Refused(Delta.val - ProvisionalFee)
              THEN BuildThrew("InsufficientFunds")
              ELSE /\ BuildReturned
                   /\ result.val.transaction.outputs =
                         IF Delta.val - ProvisionalFee = 0 THEN outputs
                         ELSE Append(outputs,
                                     ChangeCell(accountLock, Delta.val - ProvisionalFee))
        /\ BuildThrew("InsufficientFunds") =>
              \/ Refused(Delta.val)
              \/ Provisional.err = "none" /\ Refused(Delta.val - ProvisionalFee)
        /\ (Delta.val = 0 /\ Provisional.err = "none") =>
              IF ProvisionalFee = 0
              THEN BuildReturned /\ result.val.transaction.outputs = outputs
              ELSE BuildThrew("InsufficientFunds")

\* C2 witness: a build over a zero delta that failed for the unpaid fee.
C2_Witness ==
    /\ BuildThrew("InsufficientFunds")
    /\ Delta.val = 0
    /\ Provisional.err = "none"
    /\ ProvisionalFee > 0

\* Every poll so far reported pending or proposed.
AllWaiting == waitedOnly /\ lastStatus \in {"none", "pending", "proposed"}

\* The call got as far as the poll loop.
ReachedPolling == submits = 1 /\ result.err # "SendTransactionFailed"

C3_Bounds ==
    /\ polls <= secondsTimeout + 1
    /\ secondsTimeout = DefaultTimeout => polls < 602
    /\ AllWaiting => ~(pc = "done" /\ ReachedPolling /\ result.err = "none")
    /\ (pc = "done" /\ ReachedPolling /\ AllWaiting) => result.err = "SubmissionTimedOut"

\* C3: when every poll reports pending or proposed the poll loop ends, in the
\* timed-out failure and never in success, and for a timeout T no more than
\* T+1 polls are issued (with the default 600, never a 602nd).
C3_TimesOut == []C3_Bounds /\ ((pc = "getTransaction") ~> (pc = "done"))

\* C3 witness: the default timeout ran out after only pending/proposed polls.
C3_Witness ==
    /\ pc = "done"
    /\ secondsTimeout = DefaultTimeout
    /\ polls = DefaultTimeout
    /\ AllWaiting
    /\ result.err = "SubmissionTimedOut"

C4_Terminal ==
    /\ waitedOnly
    /\ submits <= 1
    /\ (pc = "getTransaction" \/ polls > 0) => submits = 1
    /\ polls > 0 => ReachedPolling
    /\ (pc = "done" /\ ReachedPolling) =>
          /\ result.err \in {"none", "SubmissionTimedOut", "UnexpectedTransactionStatus"}
          /\ result.err = "none" <=> lastStatus = "committed"
          /\ result.err = "UnexpectedTransactionStatus" <=>
                lastStatus \notin {"none", "pending", "proposed", "committed"}
          /\ result.err = "SubmissionTimedOut" <=> AllWaiting
    /\ lastStatus \notin {"none", "pending", "proposed"} => pc = "done"

\* C4: the poll machine ends in exactly one terminal state: success only on a
\* poll reporting committed after only pending/proposed polls; the first poll
\* reporting any other status ends in the unexpected failure with no poll
\* after it; and the transaction is submitted exactly once.
C4_PollMachine ==
    /\ []C4_Terminal
    /\ [][pc = "done" => (pc' = "done" /\ polls' = polls /\ submits' = submits
                            /\ result' = result)]_vars
    /\ [][pc = "getTransaction" => submits' = submits]_vars

\* C4 witness: a poll reported an unexpected status after some waiting polls.
C4_Witness ==
    /\ pc = "done"
    /\ polls > 1
    /\ lastStatus = "rejected"
    /\ result.err = "UnexpectedTransactionStatus"

\* The hash of the block that contains cell c.
OwnBlockHash(c) == ChainHeader(c.blockNumber).hash

\* The hash of the block whose number the payload of cell c encodes.
PayloadBlockHash(c) == ChainHeader(Uint64LEunpack(c.data)).hash

\* C5 as stated: within one build, for every maturity-deposit input the
\* witness builder finds the hash of the block containing the deposit in the
\* header dependencies and the witness's inputType field encodes its position
\* there, so that HeaderDepNotFound is never raised.
C5_AsStated ==
    /\ ~BuildThrew("HeaderDepNotFound")
    /\ BuildReturned =>
          LET tx == result.val.transaction
          IN  \A k \in 1..Len(tx.inputs) :
                  isDAODeposit(tx.inputs[k]) =>
                      /\ findIndex(tx.headerDeps, OwnBlockHash(tx.inputs[k])) # -1
                      /\ tx.witnesses[k].inputType =
                            Uint64LEpack(findIndex(tx.headerDeps, OwnBlockHash(tx.inputs[k])))

\* The header-dependency resolver run over the accumulated inputs.
HeaderDepsOfInputs == addHeaderDeps(Context, [TransactionSkeleton EXCEPT !.inputs = inputs])

\* What input c has to contribute to the header dependencies, in order.
Contribution(c) ==
    IF isDAODeposit(c) THEN <<OwnBlockHash(c)>>
    ELSE IF isDAOWithdrawal(c) THEN <<OwnBlockHash(c), PayloadBlockHash(c)>>
    ELSE <<>>

\* The contributions of the inputs one after the other.
RECURSIVE Contributions(_)
Contributions(cells) ==
    IF cells = <<>> THEN <<>> ELSE Contribution(Head(cells)) \o Contributions(Tail(cells))

\* h comes before g in s, going by first occurrences.
FirstBefore(s, h, g) == findIndex(s, h) < findIndex(s, g)

\* C6: after header-dependency resolution the header-dependency list is
\* duplicate-free, in first-insertion order over the inputs, and contains
\* exactly the own-block hash of every deposit input and both the own-block
\* hash and the payload-decoded deposit-block hash of every withdrawal input,
\* nothing for ordinary inputs; a withdrawal's deposit-block hash is never
\* omitted. A build that returns carries exactly that list.
C6_HeaderDeps ==
    /\ HeaderDepsOfInputs.err = "none" =>
          LET headerDeps == HeaderDepsOfInputs.val.headerDeps
              wanted == Contributions(inputs)
          IN  /\ NoDuplicates(headerDeps)
              /\ Range(headerDeps) = Range(wanted)
              /\ \A a, b \in 1..Len(headerDeps) :
                    a < b => FirstBefore(wanted, headerDeps[a], headerDeps[b])
              /\ \A k \in 1..Len(inputs) :
                    isDAOWithdrawal(inputs[k]) =>
                        PayloadBlockHash(inputs[k]) \in Range(headerDeps)
    /\ BuildReturned =>
          /\ HeaderDepsOfInputs.err = "none"
          /\ result.val.transaction.headerDeps = HeaderDepsOfInputs.val.headerDeps

\* C6 witness: a build was attempted over a deposit followed by a withdrawal
\* of a deposit made in the same block: three contributions, two of them the
\* same hash, resolved to two header dependencies.
C6_Witness ==
    /\ result.op = "build"
    /\ Len(inputs) = 2
    /\ isDAODeposit(inputs[1])
    /\ isDAOWithdrawal(inputs[2])
    /\ HeaderDepsOfInputs.err = "none"
    /\ Len(Contributions(inputs)) = 3
    /\ Len(HeaderDepsOfInputs.val.headerDeps) = 2

\* The account lock is of the kind that gets a placeholder per occurrence.
PlaceholderPerOccurrence == isScript(accountLock, defaultScript(<<"PWLOCK">>))

\* The positions of the inputs of tx locked by the account lock.
AccountInputs(tx) ==
    {k \in 1..Len(tx.inputs) : scriptEq(tx.inputs[k].cellOutput.lock, accountLock)}

\* The positions of the witnesses of tx that hold the 65 zero bytes.
PlaceholderWitnesses(tx) ==
    {k \in 1..Len(tx.witnesses) : tx.witnesses[k].lock = [n \in 1..65 |-> 0]}

\* C7: in every skeleton a build returns, when the account lock is not of the
\* allow-listed kind exactly the first input locked by the account lock has
\* the 65-byte zero-filled lock placeholder; when it is of the allow-listed
\* kind every input locked by the account lock has it; inputs with another
\* lock never have it, and every witness without it has an empty lock field.
C7_PlaceholderPolicy ==
    BuildReturned =>
        LET tx == result.val.transaction
        IN  /\ PlaceholderWitnesses(tx) =
                  IF PlaceholderPerOccurrence THEN AccountInputs(tx)
                  ELSE {k \in AccountInputs(tx) : \A j \in AccountInputs(tx) : k <= j}
            /\ \A k \in 1..Len(tx.witnesses) :
                  k \notin PlaceholderWitnesses(tx) => tx.witnesses[k].lock = <<>>

\* C7 witness: a build returned a skeleton with two inputs locked by an
\* account lock that is not of the allow-listed kind.
C7_Witness ==
    /\ BuildReturned
    /\ ~PlaceholderPerOccurrence
    /\ Cardinality(AccountInputs(result.val.transaction)) = 2
    /\ Cardinality(PlaceholderWitnesses(result.val.transaction)) = 1

\* What C8 asks of a skeleton buildWithChange returned.
WitnessPerInput(tx) ==
    /\ tx.inputs = inputs
    /\ Len(tx.witnesses) = Len(tx.inputs)
    /\ DOMAIN tx.inputSinces \subseteq 0..(Len(tx.inputs) - 1)
    /\ \A k \in 1..Len(tx.inputs) : (k - 1) \in DOMAIN tx.inputSinces <=>
                                        isDAOWithdrawal(tx.inputs[k])

\* C8: every skeleton returned by buildWithChange (the provisional one and the
\* one the build returns) has as many witnesses as inputs, and every key of
\* its inputSinces map is an index in [0, inputs.length): the index of a
\* withdrawal input.
C8_WitnessPerInput ==
    /\ (result.op = "build" /\ Delta.err = "none" /\ Provisional.err = "none") =>
          WitnessPerInput(Provisional.val)
    /\ BuildReturned => WitnessPerInput(result.val.transaction)

\* C8 witness: a build returned a skeleton whose last input is a withdrawal,
\* so that the last index is a key of inputSinces.
C8_Witness ==
    /\ BuildReturned
    /\ Len(inputs) = 2
    /\ DOMAIN result.val.transaction.inputSinces = {1}

\* The amounts a deposit cell may be withdrawn for: from the header of the
\* block the deposit was made in to the header of a later block.
MaximumWithdraws(c) ==
    {calculateMaximumWithdrawCompatible(c, ChainHeader(c.blockNumber).dao, ChainHeader(w).dao) :
        w \in (c.blockNumber + 1)..ChainTip}

\* The sums of effective capacities the inputs may have.
RECURSIVE EffectiveSums(_)
EffectiveSums(cells) ==
    IF cells = <<>> THEN {0}
    ELSE {first + rest :
            first \in (IF isDAODeposit(Head(cells)) THEN MaximumWithdraws(Head(cells))
                       ELSE {Head(cells).cellOutput.capacity}),
            rest \in EffectiveSums(Tail(cells))}

\* C9 as stated: the delta getCkbDelta returns is the sum of the inputs'
\* effective capacities minus the sum of the outputs' capacities, an ordinary
\* input counting for its stated capacity and a maturity-deposit input for
\* the maximum withdrawable amount from the header of the block in which the
\* deposit was made to a withdrawal-time header.
C9_AsStated ==
    (result.op = "getCkbDelta" /\ result.err = "none") =>
        result.val + OutputsCapacity(outputs) \in EffectiveSums(inputs)

\* The code-dependency resolver run over the given inputs and outputs.
CellDepsOf(ins, outs) ==
    addCellDeps([TransactionSkeleton EXCEPT !.inputs = ins, !.outputs = outs])

\* The orderings of the elements of s.
Orderings(s) ==
    {[k \in 1..Len(s) |-> s[p[k]]] :
        p \in {f \in [1..Len(s) -> 1..Len(s)] : \A a, b \in 1..Len(s) : f[a] = f[b] => a = b}}

\* The CellDep entries the scripts of the given cells require.
RequiredCellDeps(ins, outs) ==
    UNION {Range(ScriptCellDeps(sc)) :
             sc \in {ins[k].cellOutput.lock : k \in 1..Len(ins)}
                    \cup ({c.cellOutput.type : c \in Range(ins) \cup Range(outs)} \ {NoScript})}

\* C10: code-dependency resolution deduplicates and is order-independent in
\* content: no (outPoint, depType) pair appears more than once, the entries
\* are those the scripts require (a lock shared by two inputs contributing
\* once), and every ordering of the same inputs and outputs resolves to the
\* same set of entries, whenever a build has run the resolver over them. A
\* build that returns carries that set.
C10_CellDeps ==
    /\ (result.op = "build" /\ CellDepsOf(inputs, outputs).err = "none") =>
          LET cellDeps == CellDepsOf(inputs, outputs).val.cellDeps
          IN  /\ NoDuplicates([k \in 1..Len(cellDeps) |-> serializeCellDep(cellDeps[k])])
              /\ Range(cellDeps) = RequiredCellDeps(inputs, outputs)
              /\ {CellDepsOf(ins, outs).err :
                      ins \in Orderings(inputs), outs \in Orderings(outputs)} = {"none"}
              /\ {Range(CellDepsOf(ins, outs).val.cellDeps) :
                      ins \in Orderings(inputs), outs \in Orderings(outputs)}
                    = {Range(cellDeps)}
    /\ BuildReturned =>
          /\ CellDepsOf(inputs, outputs).err = "none"
          /\ Range(result.val.transaction.cellDeps) = RequiredCellDeps(inputs, outputs)

\* C10 witness: a build returned over two inputs sharing a lock script and an
\* output whose type requires that lock's dependency again: three scripts
\* naming the same entry, which the skeleton carries once.
C10_Witness ==
    /\ BuildReturned
    /\ Len(inputs) = 2
    /\ inputs[1] # inputs[2]
    /\ inputs[1].cellOutput.lock = inputs[2].cellOutput.lock
    /\ \E k \in 1..Len(outputs) : isScript(outputs[k].cellOutput.type, SudtType)
    /\ Len(result.val.transaction.cellDeps) = 2

\* The scripts code-dependency resolution has to resolve: the locks of the
\* inputs and the present types of the inputs and outputs.
ScriptsToResolve(ins, outs) ==
    {ins[k].cellOutput.lock : k \in 1..Len(ins)}
        \cup ({c.cellOutput.type : c \in Range(ins) \cup Range(outs)} \ {NoScript})

\* The registry names a script of the (codeHash, hashType) identity of sc.
KnownScript(sc) ==
    \E name \in ConfigScripts :
        /\ defaultScript(name).codeHash = sc.codeHash
        /\ defaultScript(name).hashType = sc.hashType

\* The build stage of the buildAndSend call has run and failed / returned.
BuildStageFailed ==
    pc = "done" /\ signerCalls = 0 /\ result.err # "CustomBuildStepFailed"

BuildStageReturned == pc = "signer"

\* C11: code-dependency resolution fails closed: when a lock of an input or a
\* present type of an input or output has an identity the registry does not
\* know, resolution fails with UnresolvedScript and the build stage yields no
\* skeleton (it fails with UnresolvedScript unless the change was refused
\* first); and every skeleton a build yields has all the CellDep entries of
\* every such script among its dependencies.
C11_FailsClosed ==
    /\ (\E sc \in ScriptsToResolve(inputs, outputs) : ~KnownScript(sc)) =>
          /\ CellDepsOf(inputs, outputs).err = "UnresolvedScript"
          /\ CellDepsOf(inputs, outputs).val = NoTransaction
          /\ pc \notin {"signer", "sendTransaction", "getTransaction"}
          /\ signerCalls = 0 /\ submits = 0
          /\ BuildStageFailed => result.err \in {"UnresolvedScript", "InsufficientFunds"}
          /\ (BuildStageFailed /\ ~Refused(Delta.val)) => result.err = "UnresolvedScript"
    /\ BuildStageReturned =>
          /\ \A sc \in ScriptsToResolve(inputs, outputs) :
                /\ KnownScript(sc)
                /\ Range(ScriptCellDeps(sc)) \subseteq Range(result.val.transaction.cellDeps)
          /\ CellDepsOf(inputs, outputs).err = "none"

\* C11 witness: the build stage failed with UnresolvedScript over inputs whose
\* locks are all known and an output whose type is not.
C11_Witness ==
    /\ BuildStageFailed
    /\ result.err = "UnresolvedScript"
    /\ inputs # <<>>
    /\ \A k \in 1..Len(inputs) : KnownScript(inputs[k].cellOutput.lock)
    /\ \E k \in 1..Len(outputs) : ~KnownScript(outputs[k].cellOutput.type)

\* list grew into grown by cells put in front of it or after it.
GrownAtAnEnd(list, grown) ==
    /\ Len(grown) > Len(list)
    /\ \/ SubSeq(grown, 1, Len(list)) = list
       \/ SubSeq(grown, Len(grown) - Len(list) + 1, Len(grown)) = list

\* Some cell of the list lacks a block number.
LacksBlockNumber(list) == \E k \in 1..Len(list) : list[k].blockNumber = NoBlockNumber

\* What C12 asks of a step that changes the accumulated cells.
C12_AddStep ==
    /\ (inputs' # inputs \/ outputs' # outputs) => result'.op = "add"
    /\ inputs' # inputs =>
          /\ GrownAtAnEnd(inputs, inputs')
          /\ outputs' = outputs
          /\ result'.err = "MissingBlockNumber" <=> LacksBlockNumber(inputs')
          /\ result'.err \in {"none", "MissingBlockNumber"}
    /\ outputs' # outputs =>
          /\ GrownAtAnEnd(outputs, outputs')
          /\ inputs' = inputs
          /\ result'.err = "none"

\* C12: add('input', ...) fails with MissingBlockNumber if and only if some
\* accumulated input, previously accumulated or newly supplied, lacks a block
\* number, and otherwise has inserted the new cells, in order, at the start or
\* the end of the inputs; add('output', ...) never fails, inserts likewise
\* into the outputs and leaves the inputs alone. Nothing else changes either
\* list.
C12_Add == [][C12_AddStep]_vars

\* C12 witness: an add failed over two accumulated inputs of which the first
\* lacks a block number and the second carries one.
C12_Witness ==
    /\ result.op = "add"
    /\ result.err = "MissingBlockNumber"
    /\ Len(inputs) = 2
    /\ inputs[1].blockNumber = NoBlockNumber
    /\ inputs[2].blockNumber # NoBlockNumber

\* What C13 asks of every state.
C13_Cache ==
    /\ \A n \in 0..ChainTip : rpcCalls[n] <= 1
    /\ \A n \in knownHeaders : rpcCalls[n] = 0
    /\ \A n \in BlockNumbers : blockNumber2Header[n] \in {NoHeader, ChainHeader(n)}
    /\ result.op = "getHeaderByNumber" =>
          IF ChainHeader(result.val.blockNumber) = NoHeader
          THEN result.err = "HeaderNotFound"
          ELSE /\ result.err = "none"
               /\ result.val.header = ChainHeader(result.val.blockNumber)
               /\ blockNumber2Header[result.val.blockNumber] = result.val.header

\* What C13 asks of every step: a cached header stays as it is, and the
\* adapter is asked only for a block number the cache has nothing for.
C13_Step ==
    \A n \in BlockNumbers :
        /\ blockNumber2Header[n] # NoHeader =>
              /\ blockNumber2Header'[n] = blockNumber2Header[n]
              /\ rpcCalls'[n] = rpcCalls[n]
        /\ rpcCalls'[n] >= rpcCalls[n]

\* C13: header resolution is memoized per builder: over any sequence of
\* lookups and builds the adapter's getHeaderByNumber is invoked at most once
\* for each block number whose header exists and never for one seeded through
\* knownHeaders, every lookup of a block number returns the same header, and
\* a lookup the adapter answers with nothing fails with HeaderNotFound.
C13_Memoized == []C13_Cache /\ [][C13_Step]_vars

\* C13 witness: on a builder seeded with another header and holding a
\* withdrawal input, a lookup returned a header the adapter was asked for
\* once, after the adapter had been asked for a header it does not have.
C13_Witness ==
    /\ result.op = "getHeaderByNumber"
    /\ result.err = "none"
    /\ result.val.blockNumber = 2
    /\ rpcCalls[2] = 1
    /\ knownHeaders = {1}
    /\ inputs # <<>>
    /\ isDAOWithdrawal(inputs[1])
    /\ rpcCalls[ChainTip + 1] > 0

\* C14 as stated: epochCompare is a total order on parsed epochs, length 0
\* included: compare(a, b) = -compare(b, a); compare(a, b) <= 0 and
\* compare(b, c) <= 0 imply compare(a, c) <= 0; and
\* compare(parse(serialize(e)), e) = 0.
C14_AsStated ==
    result.op = "epochCompare" =>
        LET a == result.val.args[1]
            b == result.val.args[2]
        IN  /\ result.val.value = 0 - epochCompare(b, a)
            /\ \A c \in Epochs :
                  (result.val.value <= 0 /\ epochCompare(b, c) <= 0) => epochCompare(a, c) <= 0
            /\ epochCompare(parseEpoch(stringifyEpoch(a)), a) = 0

\* C15: calculateFee(size, rate) is the ceiling of size*rate/1000 for all
\* non-negative size and rate: fee*1000 >= size*rate, (fee-1)*1000 < size*rate
\* when size*rate > 0, fee(0, r) = 0, and the fee does not decrease when the
\* size or the rate grows.
C15_CeilingFee ==
    result.op = "calculateFee" =>
        LET size == result.val.args[1]
            rate == result.val.args[2]
            fee == result.val.value
        IN  /\ fee * 1000 >= size * rate
            /\ size * rate > 0 => (fee - 1) * 1000 < size * rate
            /\ size = 0 => fee = 0
            /\ fee >= 0
            /\ \A larger \in FeeSizes : larger >= size => calculateFee(larger, rate) >= fee
            /\ \A higher \in HelperFeeRates : higher >= rate => calculateFee(size, higher) >= fee

\* C15 witness: a fee that was rounded up from a quotient with a remainder.
C15_Witness ==
    /\ result.op = "calculateFee"
    /\ (result.val.args[1] * result.val.args[2]) % 1000 # 0
    /\ result.val.args[1] * result.val.args[2] > 1000
    /\ result.val.value = (result.val.args[1] * result.val.args[2]) \div 1000 + 1

\* A resolver's answer is the AlreadyPopulated refusal: no skeleton comes back.
RefusedAsPopulated(r) == r.err = "AlreadyPopulated" /\ r.val = NoTransaction

\* C16: each resolver refuses a skeleton whose target field is populated:
\* run on a skeleton a build returned, addCellDeps (cellDeps not empty),
\* addHeaderDeps (headerDeps not empty), addInputSinces (inputSinces not
\* empty) and addWitnessPlaceholders (witnesses not empty) fail with
\* AlreadyPopulated and return no skeleton, so a second run never duplicates
\* entries; a build itself, starting from the empty skeleton, never meets
\* the refusal.
C16_AlreadyPopulated ==
    /\ ~BuildThrew("AlreadyPopulated")
    /\ BuildReturned =>
          LET tx == result.val.transaction
          IN  /\ tx.cellDeps # <<>> => RefusedAsPopulated(addCellDeps(tx))
              /\ tx.headerDeps # <<>> => RefusedAsPopulated(addHeaderDeps(Context, tx))
              /\ DOMAIN tx.inputSinces # {} => RefusedAsPopulated(addInputSinces(Context, tx))
              /\ tx.witnesses # <<>> =>
                    RefusedAsPopulated(addWitnessPlaceholders(Context, tx, accountLock))
              /\ addHeaderDeps(Context, tx).ctx = Context

\* C16 witness: a build returned a skeleton with all four fields populated.
C16_Witness ==
    /\ BuildReturned
    /\ result.val.transaction.cellDeps # <<>>
    /\ result.val.transaction.headerDeps # <<>>
    /\ DOMAIN result.val.transaction.inputSinces # {}
    /\ result.val.transaction.witnesses # <<>>

\* The stages of buildAndSend in the order the call runs them.
StageOrder ==
    <<"idle", "customBuildStep", "toTransactionSkeleton", "signer", "sendTransaction",
      "getTransaction", "done">>

StageRank(stage) == CHOOSE k \in 1..Len(StageOrder) : StageOrder[k] = stage

\* The build of the accumulated cells succeeds.
BuildSucceeds ==
    toTransactionSkeleton(Context, inputs, outputs, accountLock, feeRate).err = "none"

C17_Stages ==
    /\ signerCalls <= 1
    /\ submits <= 1
    /\ signerCalls = 1 => customBuildStep = "resolves"
    /\ pc = "signer" => (signerCalls = 0 /\ BuildSucceeds)
    /\ submits = 1 => (signerCalls = 1 /\ result.err # "SigningFailed")
    /\ pc = "sendTransaction" => (signerCalls = 1 /\ submits = 0 /\ result.err = "none")
    /\ polls > 0 => submits = 1
    /\ submits = 0 => (polls = 0 /\ lastStatus = "none")
    /\ result.err # "none" => pc = "done"
    /\ result.err \in {"CustomBuildStepFailed"} => (signerCalls = 0 /\ submits = 0)
    /\ result.err = "SigningFailed" => (signerCalls = 1 /\ submits = 0 /\ polls = 0)
    /\ result.err = "SendTransactionFailed" => (submits = 1 /\ polls = 0)

C17_Step ==
    /\ pc' # pc => (pc' = "done" \/ StageRank(pc') = StageRank(pc) + 1)
    /\ pc = "done" => (signerCalls' = signerCalls /\ submits' = submits /\ polls' = polls)
    /\ signerCalls' # signerCalls => (pc = "signer" /\ signerCalls' = signerCalls + 1)
    /\ submits' # submits => (pc = "sendTransaction" /\ submits' = submits + 1)
    /\ polls' # polls => pc = "getTransaction"

\* (The signer is invoked from stage "signer" only, where the build has
\* succeeded; the builder does not change afterwards.)
\* C17: buildAndSend runs its stages in the order hook, build, signer,
\* submit, poll, and a failure at any stage ends the call, unretried: the
\* signer is invoked only after the build succeeded and at most once, the
\* transaction is submitted only after the signer returned a signed
\* transaction, and no status poll happens before the submission.
C17_StagesInOrder == []C17_Stages /\ [][C17_Step]_vars

\* C17 witness: the signer, invoked once after a successful build, failed,
\* and the call ended without a submission or a poll.
C17_Witness ==
    /\ pc = "done"
    /\ result.err = "SigningFailed"
    /\ signerCalls = 1
    /\ submits = 0
    /\ polls = 0

\* What C18 asks of a step that ends a build, and of a build that follows a
\* build.
C18_Step ==
    /\ result'.op = "build" =>
          /\ inputs' = inputs
          /\ outputs' = outputs
          /\ accountLock' = accountLock
          /\ feeRate' = feeRate
    /\ (result.op = "build" /\ result'.op = "build") =>
          /\ result'.err = result.err
          /\ result'.val = result.val

\* What it asks of the skeleton a build returned: the accumulated cells, and
\* after the accumulated outputs at most the change.
C18_ChangeInSkeletonOnly ==
    BuildReturned =>
        /\ result.val.transaction.inputs = inputs
        /\ SubSeq(result.val.transaction.outputs, 1, Len(outputs)) = outputs
        /\ Len(result.val.transaction.outputs) \in {Len(outputs), Len(outputs) + 1}

\* C18: a build, whether it succeeds or fails, leaves the accumulated inputs
\* and outputs unchanged - the change output is added to the skeleton only -
\* so a build that follows a build with no add in between yields the same
\* skeleton and fee (or the same failure).
C18_BuildLeavesCells == []C18_ChangeInSkeletonOnly /\ [][C18_Step]_vars

\* C18 witness: a build returned a skeleton with a change output after the
\* accumulated outputs, which are not empty.
C18_Witness ==
    /\ BuildReturned
    /\ outputs # <<>>
    /\ Len(result.val.transaction.outputs) = Len(outputs) + 1

\* The since resolver run over the accumulated inputs.
SincesOfInputs == addInputSinces(Context, [TransactionSkeleton EXCEPT !.inputs = inputs])

\* The since a withdrawal cell is due: from the epoch of the header of the
\* deposit's block (decoded from the payload) and that of the cell's own block.
EarliestSince(c) ==
    calculateDaoEarliestSinceCompatible(ChainHeader(Uint64LEunpack(c.data)).epoch,
                                        ChainHeader(c.blockNumber).epoch)

\* What C19 asks of an inputSinces map over the accumulated inputs.
WithdrawalSinces(inputSinces) ==
    /\ DOMAIN inputSinces = {k - 1 : k \in {j \in 1..Len(inputs) : isDAOWithdrawal(inputs[j])}}
    /\ \A k \in 1..Len(inputs) :
          isDAOWithdrawal(inputs[k]) => inputSinces[k - 1] = EarliestSince(inputs[k])

\* C19: after since resolution the inputSinces map has an entry at index i if
\* and only if input i is a maturity-withdrawal cell, the entry being the
\* earliest since computed from the epoch of the original deposit's header
\* (block number decoded from the payload) and the epoch of the header of the
\* cell's own block; the resolver is never applied to another cell during a
\* build, which therefore never fails with NotAWithdrawalCell.
C19_WithdrawalSinces ==
    /\ ~BuildThrew("NotAWithdrawalCell")
    /\ result.op = "build" =>
          /\ SincesOfInputs.err # "NotAWithdrawalCell"
          /\ SincesOfInputs.err = "none" => WithdrawalSinces(SincesOfInputs.val.inputSinces)
    /\ BuildReturned => WithdrawalSinces(result.val.transaction.inputSinces)

\* C19 witness: a build returned over a withdrawal followed by an ordinary
\* input, with a since for the first only, a whole lock period after the
\* deposit's epoch.
C19_Witness ==
    /\ BuildReturned
    /\ Len(inputs) = 2
    /\ isDAOWithdrawal(inputs[1])
    /\ ~isDAOWithdrawal(inputs[2])
    /\ DOMAIN result.val.transaction.inputSinces = {0}
    /\ result.val.transaction.inputSinces[0].number =
          parseEpoch(ChainHeader(Uint64LEunpack(inputs[1].data)).epoch).number + 180

\* C20 as stated: in every reachable state of the builder every accumulated
\* input carries a block number (an add that fails with MissingBlockNumber
\* having left the inputs as they were), and no build fails with the
\* header-dependency resolver's MissingBlockNumber.
C20_AsStated ==
    /\ ~LacksBlockNumber(inputs)
    /\ ~BuildThrew("MissingBlockNumber")

====
